---- MODULE Spec2Model ----
(***************************************************************************)
(* The readiness scheduler of ai-dev-cycle: the scripts that pick the next *)
(* issue to work on (get_next_issue.py, choose_next_issue.py,              *)
(* get_prioritized_issues.py) and the dependency resolver they use         *)
(* (check_dependencies.py, deps_resolved).                                 *)
(*                                                                         *)
(* The tracker is a map from issue numbers to issues.  An issue has a      *)
(* state (open, closed, or missing when the number does not resolve), a    *)
(* set of label names and a body.  A body is a sequence of tokens          *)
(* [word, suffix, num]: the text `word suffix #num'.  The Japanese marker  *)
(* U+4F9D U+5B58 is written "izon", its long form with the katakana for    *)
(* "task" appended is the suffix "task", and the full-width colon U+FF1A   *)
(* is written "fwcolon".                                                   *)
(***************************************************************************)
EXTENDS Naturals, Integers, Sequences, FiniteSets, TLC

VARIABLES
    tracker,    \* the issues of the repository, by number
    out_file,   \* out/next_issue.json
    last,       \* the most recent script run: its arguments and its outcome
    procs,      \* the script runs in progress, by caller
    workdir,    \* what a script finds in its working directory
    repo_labels \* the labels defined in the repository

vars == <<tracker, out_file, last, procs, workdir, repo_labels>>

(* ------------------------------------------------------------ bounds --- *)
MaxIssue == 2
MaxRefs == 2
MaxDepIds == 3
MaxExtraLabels == 2
MaxStatusLabels == 3
MaxItems == 2
MaxCommands == 3
MaxFindings == 2
MaxVulns == 1

IssueIds == 1..MaxIssue
DepIds == 1..MaxDepIds

(* ------------------------------------------------------- sequences ---- *)
RECURSIVE Perms(_)
Perms(S) ==
    IF S = {} THEN {<<>>}
    ELSE UNION {{<<x>> \o p : p \in Perms(S \ {x})} : x \in S}

Range(s) == {s[i] : i \in DOMAIN s}

SeqsUpTo(S, n) == UNION {[1..k -> S] : k \in 0..n}

SubsetsUpTo(S, n) == {T \in SUBSET S : Cardinality(T) <= n}

(* Python's tuple comparison of two (rank, number) keys. *)
KeyLess(a, b) == a[1] < b[1] \/ (a[1] = b[1] /\ a[2] < b[2])

(* Python's sorted()/list.sort(), a stable sort: key maps an element to its
   (rank, number) key. *)
RECURSIVE InsertSorted(_, _, _)
InsertSorted(x, s, key) ==
    IF s = <<>> THEN <<x>>
    ELSE IF KeyLess(key[x], key[Head(s)]) THEN <<x>> \o s
    ELSE <<Head(s)>> \o InsertSorted(x, Tail(s), key)

RECURSIVE sorted(_, _)
sorted(s, key) ==
    IF s = <<>> THEN <<>>
    ELSE InsertSorted(s[Len(s)], sorted(SubSeq(s, 1, Len(s) - 1), key), key)

(* ---------------------------------------------------------- strings --- *)
(* The characters of the label names the model uses. *)
Chars ==
    ("P0" :> <<"P", "0">>) @@ ("P1" :> <<"P", "1">>) @@ ("P2" :> <<"P", "2">>)
    @@ ("p1" :> <<"p", "1">>)
    @@ ("performance" :> <<"p", "e", "r", "f", "o", "r", "m", "a", "n", "c", "e">>)
    @@ ("ai:ready" :> <<"a", "i", ":", "r", "e", "a", "d", "y">>)
    @@ ("ai:task" :> <<"a", "i", ":", "t", "a", "s", "k">>)
    @@ ("ai:failed" :> <<"a", "i", ":", "f", "a", "i", "l", "e", "d">>)
    @@ ("ai:implementing" :> <<"a", "i", ":", "i", "m", "p", "l", "e", "m", "e", "n", "t", "i", "n", "g">>)
    @@ ("blocked" :> <<"b", "l", "o", "c", "k", "e", "d">>)
    @@ ("wontfix" :> <<"w", "o", "n", "t", "f", "i", "x">>)
    @@ ("bug" :> <<"b", "u", "g">>)

(* str.upper(), character by character *)
UpperChar ==
    ("a" :> "A") @@ ("b" :> "B") @@ ("c" :> "C") @@ ("d" :> "D") @@ ("e" :> "E")
    @@ ("f" :> "F") @@ ("g" :> "G") @@ ("h" :> "H") @@ ("i" :> "I") @@ ("j" :> "J")
    @@ ("k" :> "K") @@ ("l" :> "L") @@ ("m" :> "M") @@ ("n" :> "N") @@ ("o" :> "O")
    @@ ("p" :> "P") @@ ("q" :> "Q") @@ ("r" :> "R") @@ ("s" :> "S") @@ ("t" :> "T")
    @@ ("u" :> "U") @@ ("v" :> "V") @@ ("w" :> "W") @@ ("x" :> "X") @@ ("y" :> "Y")
    @@ ("z" :> "Z")

upper(cs) == [i \in DOMAIN cs |-> IF cs[i] \in DOMAIN UpperChar THEN UpperChar[cs[i]] ELSE cs[i]]

(* label.name.upper() of every label name *)
name_upper == [l \in DOMAIN Chars |-> upper(Chars[l])]

(* str.startswith(prefix) *)
startswith(cs, prefix) ==
    Len(cs) >= Len(prefix) /\ SubSeq(cs, 1, Len(prefix)) = prefix

(* s[:n] *)
Prefix(cs, n) == SubSeq(cs, 1, IF Len(cs) < n THEN Len(cs) ELSE n)

(* ---------------------------------------------------------- tracker --- *)
(* repo.get_issue(n): the issue, or an exception when n does not resolve. *)
Resolves(pool, n) == n \in DOMAIN pool /\ pool[n].state # "missing"

(* repo.get_issues(state='open', labels=[l]): the open issues that carry
   label l, in any of the orders in which the tracker may enumerate them. *)
get_issues(pool, l) ==
    Perms({n \in DOMAIN pool : pool[n].state = "open" /\ l \in pool[n].labels})

(* repo.get_issues(state='open') *)
get_open_issues(pool) == Perms({n \in DOMAIN pool : pool[n].state = "open"})

(* issue.labels of the issues in S: the tracker may return the labels of an
   issue in any order. *)
RECURSIVE LabelViews(_, _)
LabelViews(pool, S) ==
    IF S = {} THEN {<<>>}
    ELSE LET n == CHOOSE m \in S : TRUE
         IN  {(n :> p) @@ v : p \in Perms(pool[n].labels), v \in LabelViews(pool, S \ {n})}

(* ------------------------------------------------- body references ---- *)
(* A token whose text is not followed by `#digits' has num = 0.  The three
   dependency patterns, matched case-insensitively (re.IGNORECASE), as the
   sets of the lower-cased marker texts they accept: *)
LowerWord(w) == IF w = "Depends on" \/ w = "DEPENDS ON" THEN "depends on"
                ELSE IF w = "Requires" THEN "requires"
                ELSE IF w = "Blocks by" THEN "blocks by"
                ELSE w

(* r'(?:Depends on|izon:?)\s*#(\d+)' *)
cd_pattern == {<<"depends on", "">>, <<"izon", "">>, <<"izon", ":">>}

(* r'(?:Depends on|izon:?|izon-task)\s*#(\d+)' *)
cni_pattern == {<<"depends on", "">>, <<"izon", "">>, <<"izon", ":">>, <<"izon", "task">>}

(* r'(?:Depends on|izon|Requires|Blocks by)[:fwcolon]?\s*#(\d+)' *)
gpi_pattern ==
    {<<w, c>> : w \in {"depends on", "izon", "requires", "blocks by"},
                c \in {"", ":", "fwcolon"}}

(* re.findall(pattern, body, re.IGNORECASE): the numbers of the tokens the
   pattern matches, in body order. *)
findall(pattern, body) ==
    LET m == SelectSeq(body, LAMBDA t : t.num > 0 /\ <<LowerWord(t.word), t.suffix>> \in pattern)
    IN  [i \in DOMAIN m |-> m[i].num]

(* ------------------------------------------- check_dependencies.py ---- *)
(* check_dependencies(issue_number): raised when the issue itself does not
   resolve; otherwise the unresolved references (open, or failed lookup) and
   the boolean returned. *)
cd_unresolved_open_ok(pool, deps) ==
    SelectSeq(deps, LAMBDA d : ~Resolves(pool, d))

cd_unresolved_first_only(pool, deps) ==
    LET u == SelectSeq(deps, LAMBDA d : ~Resolves(pool, d) \/ pool[d].state = "open")
    IN  IF u = <<>> THEN <<>> ELSE <<Head(u)>>

cd_unresolved(pool, deps) ==
    SelectSeq(deps, LAMBDA d : ~Resolves(pool, d) \/ pool[d].state = "open")

cd_check_dependencies(pool, n) ==
    IF ~Resolves(pool, n)
    THEN [raised |-> TRUE, ok |-> FALSE, unresolved |-> <<>>]
    ELSE LET matches == findall(cd_pattern, pool[n].body)
             unresolved == cd_unresolved(pool, matches)
         IN  IF matches = <<>>
             THEN [raised |-> FALSE, ok |-> TRUE, unresolved |-> <<>>]
             ELSE [raised |-> FALSE, ok |-> unresolved = <<>>, unresolved |-> unresolved]

cd_main_raise_ok(pool, n) ==
    LET r == cd_check_dependencies(pool, n)
    IN  IF r.raised THEN 0 ELSE IF r.ok THEN 0 ELSE 1

(* main(): the exit status of `python3 check_dependencies.py n'; an uncaught
   exception ends the interpreter with status 1. *)
cd_main(pool, n) ==
    LET r == cd_check_dependencies(pool, n)
    IN  IF r.raised THEN 1 ELSE IF r.ok THEN 0 ELSE 1

(* The process `python3 check_dependencies.py argv': without an argument
   main() prints the usage and exits 1. *)
cd_process(pool, argv) == IF argv = <<>> THEN 1 ELSE cd_main(pool, argv[1])

(* The references check_dependencies(n) looks up with repo.get_issue, in call
   order: every extracted reference, once per occurrence. *)
cd_lookups(pool, n) ==
    IF ~Resolves(pool, n) THEN <<>> ELSE findall(cd_pattern, pool[n].body)

(* -------------------------------------------- choose_next_issue.py ---- *)
PRIORITIES == <<"P0", "P1", "P2", "P3", "P4", "P5", "P6", "P7", "P8", "P9">>

RECURSIVE deps_loop_skip_failed(_, _)
deps_loop_skip_failed(pool, nums) ==
    IF nums = <<>> THEN TRUE
    ELSE IF ~Resolves(pool, Head(nums)) THEN deps_loop_skip_failed(pool, Tail(nums))
    ELSE IF pool[Head(nums)].state # "closed" THEN FALSE
    ELSE deps_loop_skip_failed(pool, Tail(nums))

deps_loop_first_only(pool, nums) ==
    Resolves(pool, Head(nums)) /\ pool[Head(nums)].state = "closed"

RECURSIVE deps_loop(_, _)
deps_loop(pool, nums) ==
    IF nums = <<>> THEN TRUE
    ELSE IF ~Resolves(pool, Head(nums)) THEN FALSE
    ELSE IF pool[Head(nums)].state # "closed" THEN FALSE
    ELSE deps_loop(pool, Tail(nums))

deps_resolved(pool, body) ==
    LET nums == findall(cni_pattern, body)
    IN  IF nums = <<>> THEN TRUE ELSE deps_loop(pool, nums)

(* The references deps_resolved looks up with repo.get_issue, in call order:
   the loop returns at the first reference that fails or is not closed. *)
RECURSIVE deps_lookups(_, _)
deps_lookups(pool, nums) ==
    IF nums = <<>> THEN <<>>
    ELSE IF ~Resolves(pool, Head(nums)) \/ pool[Head(nums)].state # "closed"
    THEN <<Head(nums)>>
    ELSE <<Head(nums)>> \o deps_lookups(pool, Tail(nums))

(* prio(issue): the index of the first entry of PRIORITIES among the labels. *)
prio(labels) ==
    IF \E i \in DOMAIN PRIORITIES : PRIORITIES[i] \in Range(labels)
    THEN (CHOOSE i \in DOMAIN PRIORITIES :
             /\ PRIORITIES[i] \in Range(labels)
             /\ \A j \in 1..(i - 1) : PRIORITIES[j] \notin Range(labels)) - 1
    ELSE 999

RECURSIVE cni_first_resolved(_, _)
cni_first_resolved(pool, candidates) ==
    IF candidates = <<>> THEN 0
    ELSE IF deps_resolved(pool, pool[Head(candidates)].body) THEN Head(candidates)
    ELSE cni_first_resolved(pool, Tail(candidates))

(* The candidates on which the selection loop called deps_resolved. *)
RECURSIVE cni_checked(_, _)
cni_checked(pool, candidates) ==
    IF candidates = <<>> THEN <<>>
    ELSE IF deps_resolved(pool, pool[Head(candidates)].body) THEN <<Head(candidates)>>
    ELSE <<Head(candidates)>> \o cni_checked(pool, Tail(candidates))

(* The lookups of one run, as pairs <<candidate, reference>>. *)
RECURSIVE cni_lookups(_, _)
cni_lookups(pool, checked) ==
    IF checked = <<>> THEN <<>>
    ELSE LET c == Head(checked)
             l == deps_lookups(pool, findall(cni_pattern, pool[c].body))
         IN  [i \in DOMAIN l |-> <<c, l[i]>>] \o cni_lookups(pool, Tail(checked))

(* main(): the number printed (0: none), the status returned, and the
   candidates whose dependencies were looked up, in call order. *)
cni_main(pool, candidates, view) ==
    LET key == [n \in Range(candidates) |-> <<prio(view[n]), n>>]
        picked == cni_first_resolved(pool, sorted(candidates, key))
        checked == cni_checked(pool, sorted(candidates, key))
    IN  IF candidates = <<>> THEN [number |-> 0, exit |-> 1, checked |-> <<>>]
        ELSE IF picked # 0 THEN [number |-> picked, exit |-> 0, checked |-> checked]
        ELSE [number |-> 0, exit |-> 1, checked |-> checked]

(* ------------------------------------------------ get_next_issue.py --- *)
PRIORITY_ORDER(p) ==
    CASE p = <<"P", "0">> -> 0
      [] p = <<"P", "1">> -> 1
      [] p = <<"P", "2">> -> 2
      [] p = <<"P", "3">> -> 3
      [] OTHER -> 99

(* extract_priority(issue): the first two characters, upper-cased, of the
   first label whose upper-cased name starts with P; P9 when there is none. *)
RECURSIVE gni_extract_priority(_)
gni_extract_priority(labels) ==
    IF labels = <<>> THEN <<"P", "9">>
    ELSE IF startswith(name_upper[Head(labels)], <<"P">>)
         THEN Prefix(name_upper[Head(labels)], 2)
    ELSE gni_extract_priority(Tail(labels))

gni_check_dependencies_unchecked(pool, n) == TRUE

(* check_dependencies(issue_number): runs check_dependencies.py as a
   subprocess; True exactly when it exits 0. *)
gni_check_dependencies(pool, n) == cd_main(pool, n) = 0

gni_first_runnable_stops(pool, issues) ==
    IF issues = <<>> THEN 0
    ELSE IF gni_check_dependencies(pool, Head(issues)) THEN Head(issues)
    ELSE 0

RECURSIVE gni_first_runnable(_, _)
gni_first_runnable(pool, issues) ==
    IF issues = <<>> THEN 0
    ELSE IF gni_check_dependencies(pool, Head(issues)) THEN Head(issues)
    ELSE gni_first_runnable(pool, Tail(issues))

(* check_dependencies(issue_number) with the outcome of subprocess.run:
   when the process cannot be launched the except branch returns False. *)
gni_check_dependencies_run(pool, n, launched) ==
    IF launched THEN gni_check_dependencies(pool, n) ELSE FALSE

gni_checked_again(pool, issues) == issues \o issues

(* The issues on which the selection loop called check_dependencies. *)
RECURSIVE gni_checked(_, _)
gni_checked(pool, issues) ==
    IF issues = <<>> THEN <<>>
    ELSE IF gni_check_dependencies(pool, Head(issues)) THEN <<Head(issues)>>
    ELSE <<Head(issues)>> \o gni_checked(pool, Tail(issues))

(* The lookups of one run, as pairs <<candidate, reference>>. *)
RECURSIVE gni_lookups(_, _)
gni_lookups(pool, checked) ==
    IF checked = <<>> THEN <<>>
    ELSE LET c == Head(checked)
             l == cd_lookups(pool, c)
         IN  [i \in DOMAIN l |-> <<c, l[i]>>] \o gni_lookups(pool, Tail(checked))

None == [raised |-> FALSE, number |-> 0, priority |-> <<>>, checked |-> <<>>]

get_next_issue_forced_checks(pool, force, issues, view) ==
    IF force # 0
    THEN IF ~Resolves(pool, force)
         THEN [raised |-> TRUE, number |-> 0, priority |-> <<>>, checked |-> <<>>]
         ELSE IF pool[force].state = "open" /\ gni_check_dependencies(pool, force)
         THEN [raised |-> FALSE, number |-> force,
               priority |-> gni_extract_priority(view[force]), checked |-> <<>>]
         ELSE None
    ELSE None

(* get_next_issue(): force = 0 when FORCE_ISSUE is not set.  The result is
   None, or the selected issue's number and priority; raised when the forced
   issue does not resolve.  checked lists the issues whose dependencies were
   looked up, in call order. *)
get_next_issue(pool, force, issues, view) ==
    IF force # 0
    THEN IF ~Resolves(pool, force)
         THEN [raised |-> TRUE, number |-> 0, priority |-> <<>>, checked |-> <<>>]
         ELSE IF pool[force].state = "open"
         THEN [raised |-> FALSE, number |-> force,
               priority |-> gni_extract_priority(view[force]), checked |-> <<>>]
         ELSE None
    ELSE LET key == [n \in Range(issues) |->
                        <<PRIORITY_ORDER(gni_extract_priority(view[n])), n>>]
             picked == gni_first_runnable(pool, sorted(issues, key))
             checked == gni_checked(pool, sorted(issues, key))
         IN  IF picked # 0
             THEN [raised |-> FALSE, number |-> picked,
                   priority |-> gni_extract_priority(view[picked]),
                   checked |-> checked]
             ELSE [None EXCEPT !.checked = checked]

(* ---------------------------------------- get_prioritized_issues.py --- *)
get_issue_status_blocked_first(labels) ==
    IF \E i \in DOMAIN labels : labels[i] \in {"ai:implementing", "ai:pr-created", "ai:completed", "done", "closed"}
    THEN "in_progress"
    ELSE IF \E i \in DOMAIN labels : labels[i] \in {"blocked", "waiting", "dependency"}
    THEN "blocked"
    ELSE IF \E i \in DOMAIN labels : labels[i] \in {"ai:failed", "ai:test-failed", "ai:review-failed",
                                                     "ai:security-failed", "ai:pr-failed"}
    THEN "needs_human_intervention"
    ELSE IF \E i \in DOMAIN labels : labels[i] \in {"wontfix", "duplicate", "skip"}
    THEN "skip"
    ELSE "ready"

any_in(markers, labels) == \E i \in DOMAIN markers : markers[i] \in Range(labels)

get_issue_status(labels) ==
    IF any_in(<<"ai:implementing", "ai:pr-created", "ai:completed", "done", "closed">>, labels)
    THEN "in_progress"
    ELSE IF any_in(<<"ai:failed", "ai:test-failed", "ai:review-failed",
                     "ai:security-failed", "ai:pr-failed">>, labels)
    THEN "needs_human_intervention"
    ELSE IF any_in(<<"blocked", "waiting", "dependency">>, labels)
    THEN "blocked"
    ELSE IF any_in(<<"wontfix", "duplicate", "skip">>, labels)
    THEN "skip"
    ELSE "ready"

(* extract_priority(issue_body): the first whole word P0, P1 or P2 of the
   body, else the Japanese urgency words ("saikou-yuusen", "kinkyuu": P0;
   "kou-yuusen": P1), else P2. *)
gpi_extract_priority(body) ==
    LET tagged == SelectSeq(body, LAMBDA t : t.word \in {"P0", "P1", "P2"})
        words == {body[i].word : i \in DOMAIN body}
    IN  IF body = <<>> THEN "P2"
        ELSE IF tagged # <<>> THEN Head(tagged).word
        ELSE IF "saikou-yuusen" \in words \/ "kinkyuu" \in words THEN "P0"
        ELSE IF "kou-yuusen" \in words THEN "P1"
        ELSE "P2"

(* check_dependencies(issue, all_issues): status maps the numbers of the
   collected issues to their current status. *)
RECURSIVE gpi_deps_loop(_, _)
gpi_deps_loop(status, matches) ==
    IF matches = <<>> THEN TRUE
    ELSE IF Head(matches) \in DOMAIN status
            /\ status[Head(matches)] \notin {"completed", "closed"}
    THEN FALSE
    ELSE gpi_deps_loop(status, Tail(matches))

gpi_check_dependencies(body, status) ==
    IF body = <<>> THEN TRUE
    ELSE LET matches == findall(gpi_pattern, body)
         IN  IF matches = <<>> THEN TRUE ELSE gpi_deps_loop(status, matches)

(* The dependency pass of main(): issue_list in collection order; a status
   changed for one issue is seen by the checks of the issues after it. *)
RECURSIVE gpi_dep_pass(_, _, _)
gpi_dep_pass(pool, order, status) ==
    IF order = <<>> THEN status
    ELSE LET n == Head(order)
             blocked == status[n] = "ready"
                        /\ ~gpi_check_dependencies(pool[n].body, status)
         IN  gpi_dep_pass(pool, Tail(order),
                 IF blocked THEN [status EXCEPT ![n] = "blocked_by_dependency"]
                 ELSE status)

priority_order_flat(p) == 2

(* priority_order.get(x["priority"], 2) *)
priority_order(p) ==
    CASE p = "P0" -> 0 [] p = "P1" -> 1 [] p = "P2" -> 2 [] OTHER -> 2

move_to_front_stay(s, i) == s

(* issue_list.insert(0, issue_list.pop(i)) *)
move_to_front(s, i) ==
    <<s[i]>> \o SubSeq(s, 1, i - 1) \o SubSeq(s, i + 1, Len(s))

(* main(), where listed is the tracker as repo.get_issues() returned it and
   pool the tracker as the dependency pass re-fetches it with
   repo.get_issue(): the list written to out/prioritized_issues.json, as records
   [number, priority, status], the number announced as the next target
   (0: none), and the issues on which check_dependencies was called, in call
   order. *)
gpi_run(listed, pool, force, collected, view) ==
    LET status0 == [n \in Range(collected) |-> get_issue_status(view[n])]
        status1 == gpi_dep_pass(pool, collected, status0)
        key == [n \in Range(collected) |->
                   <<priority_order(gpi_extract_priority(listed[n].body)), n>>]
        ordered == sorted(collected, key)
        forced == force # 0 /\ force \in Range(collected)
        final == IF forced
                 THEN move_to_front(ordered, CHOOSE i \in DOMAIN ordered : ordered[i] = force)
                 ELSE ordered
        status2 == IF forced THEN [status1 EXCEPT ![force] = "ready"] ELSE status1
        issue_list == [i \in DOMAIN final |->
                          [number |-> final[i],
                           priority |-> gpi_extract_priority(listed[final[i]].body),
                           status |-> status2[final[i]]]]
        ready == SelectSeq(issue_list, LAMBDA d : d.status = "ready")
    IN  [list |-> issue_list,
         next |-> IF ready # <<>> THEN Head(ready).number ELSE 0,
         checked |-> SelectSeq(collected, LAMBDA n : status0[n] = "ready")]

(* main() when the tracker does not change during the run *)
gpi_main(pool, force, collected, view) == gpi_run(pool, pool, force, collected, view)

(* ------------------------------------------------------ the system ---- *)
Token(w, sfx, n) == [word |-> w, suffix |-> sfx, num |-> n]

Missing == [state |-> "missing", labels |-> {}, body |-> <<>>]
Closed == [state |-> "closed", labels |-> {}, body |-> <<>>]
OpenIssues(labelsets, bodies) == [state : {"open"}, labels : labelsets, body : bodies]

(* The pools of the scheduler runs: every open issue carries the candidate
   marker of one of the two schedulers and up to MaxExtraLabels other labels,
   and its body declares at most one dependency, on an issue of the pool or
   on a number past the last one, which never resolves. *)
MarkerLabels == {"ai:ready", "ai:task"}
ExtraLabels == {"P0", "P1", "performance", "ai:failed"}
SchedLabelSets ==
    {{m} \cup x : m \in MarkerLabels, x \in SubsetsUpTo(ExtraLabels, MaxExtraLabels)}
SchedBodies == {<<>>} \cup {<<Token("Depends on", "", k)>> : k \in 1..(MaxIssue + 1)}

(* out/next_issue.json: whether it exists, the issue and priority it holds
   (issue_number 0: an empty file), and whether its text is the overlay of two
   different results. *)
Absent == [exists |-> FALSE, issue_number |-> 0, priority |-> <<>>, torn |-> FALSE]

(* json.dump(next_issue, f) *)
dump(next_issue) ==
    [exists |-> TRUE, issue_number |-> next_issue.number,
     priority |-> next_issue.priority, torn |-> FALSE]

(* A caller that runs no script. *)
Callers == {1, 2}
Idle == [pc |-> "idle", script |-> "", force |-> 0, next |-> None,
         snapshot |-> <<>>, order |-> <<>>, fault |-> ""]
NoProcs == [p \in Callers |-> Idle]

(* A working directory in which the scripts of the model read nothing. *)
NoFiles == <<>>

(* The record of a run: the script or function, its argument (the forced or
   given issue number, 0 when none), whether it ended in an uncaught
   exception, and what it returned or wrote. *)
(* The mutating gh calls of one run: the labels gh label create was called
   for, the keys gh issue create was called for, and the issues PATCHed. *)
NoCalls == [label_create |-> {}, issue_create |-> <<>>, issue_patch |-> <<>>]

NoRun ==
    [script |-> "", arg |-> 0, raised |-> FALSE, ok |-> FALSE, number |-> 0,
     priority |-> <<>>, exit |-> 0, status |-> "", unresolved |-> <<>>, list |-> <<>>,
     checked |-> <<>>, rank |-> 0, lookups |-> <<>>, dry_run |-> FALSE,
     calls |-> NoCalls]

Init ==
    /\ tracker \in [IssueIds -> {Missing, Closed}
                        \cup OpenIssues(SchedLabelSets, SchedBodies)]
    /\ out_file = Absent
    /\ last = NoRun
    /\ procs = NoProcs
    /\ workdir = NoFiles
    /\ repo_labels = {}

gni_main_closes(force, next_issue) ==
    /\ last' = [NoRun EXCEPT !.script = "get_next_issue", !.arg = force,
                             !.raised = next_issue.raised,
                             !.number = next_issue.number,
                             !.priority = next_issue.priority,
                             !.checked = next_issue.checked,
                             !.lookups = gni_lookups(tracker, next_issue.checked),
                             !.exit = IF next_issue.raised THEN 1 ELSE 0]
    /\ out_file' = IF next_issue.raised THEN out_file
                   ELSE IF next_issue.number # 0
                   THEN dump(next_issue)
                   ELSE Absent
    /\ tracker' = IF next_issue.number # 0
                  THEN [tracker EXCEPT ![next_issue.number].state = "closed"]
                  ELSE tracker
    /\ UNCHANGED <<procs, workdir, repo_labels>>

(* main() of get_next_issue.py once get_next_issue() has returned next_issue:
   the hand-off file is written, removed, or (on an exception) left alone. *)
gni_main(force, next_issue) ==
    /\ last' = [NoRun EXCEPT !.script = "get_next_issue", !.arg = force,
                             !.raised = next_issue.raised,
                             !.number = next_issue.number,
                             !.priority = next_issue.priority,
                             !.checked = next_issue.checked,
                             !.lookups = gni_lookups(tracker, next_issue.checked),
                             !.exit = IF next_issue.raised THEN 1 ELSE 0]
    /\ out_file' = IF next_issue.raised THEN out_file
                   ELSE IF next_issue.number # 0
                   THEN dump(next_issue)
                   ELSE Absent
    /\ UNCHANGED <<tracker, procs, workdir, repo_labels>>

(* python3 get_next_issue.py with FORCE_ISSUE = force *)
GetNextIssueForced ==
    \E force \in IssueIds :
        \E view \in LabelViews(tracker, {force}) :
            gni_main(force, get_next_issue(tracker, force, <<>>, view))

(* python3 get_next_issue.py with FORCE_ISSUE not set *)
GetNextIssueMain ==
    \E issues \in get_issues(tracker, "ai:ready") :
        \E view \in LabelViews(tracker, Range(issues)) :
            gni_main(0, get_next_issue(tracker, 0, issues, view))

(* python3 choose_next_issue.py *)
ChooseNextIssueMain ==
    \E candidates \in get_issues(tracker, "ai:task") :
        \E view \in LabelViews(tracker, Range(candidates)) :
            LET r == cni_main(tracker, candidates, view)
            IN  /\ last' = [NoRun EXCEPT !.script = "choose_next_issue",
                                         !.number = r.number, !.exit = r.exit,
                                         !.checked = r.checked,
                                         !.lookups = cni_lookups(tracker, r.checked)]
                /\ UNCHANGED <<tracker, out_file, procs, workdir, repo_labels>>

Next ==
    \/ GetNextIssueForced
    \/ GetNextIssueMain
    \/ ChooseNextIssueMain

Spec == Init /\ [][Next]_vars

(* ------------------------------------------- the resolvers, alone ----- *)
(* Issue 1 carries a body of up to MaxRefs tokens that refer to the issues
   1..MaxDepIds; the other issues are its possible dependencies. *)
ResolverMarkers ==
    {<<"Depends on", "">>, <<"DEPENDS ON", "">>, <<"izon", ":">>, <<"izon", "task">>,
     <<"Requires", "">>}
ResolverTokens == {Token(m[1], m[2], k) : m \in ResolverMarkers, k \in DepIds}
ResolverBodies == SeqsUpTo(ResolverTokens, MaxRefs)
Plain == [state |-> "open", labels |-> {}, body |-> <<>>]

InitResolver ==
    /\ tracker \in {(1 :> subject) @@ deps :
                       subject \in {Missing, Closed} \cup OpenIssues({{}}, ResolverBodies),
                       deps \in [DepIds \ {1} -> {Missing, Closed, Plain}]}
    /\ out_file = Absent
    /\ last = NoRun
    /\ procs = NoProcs
    /\ workdir = NoFiles
    /\ repo_labels = {}

(* python3 check_dependencies.py n *)
CheckDependenciesMain ==
    \E n \in DOMAIN tracker :
        LET r == cd_check_dependencies(tracker, n)
        IN  /\ last' = [NoRun EXCEPT !.script = "check_dependencies", !.arg = n,
                                     !.raised = r.raised, !.ok = r.ok,
                                     !.unresolved = r.unresolved,
                                     !.exit = cd_main(tracker, n)]
            /\ UNCHANGED <<tracker, out_file, procs, workdir, repo_labels>>

(* deps_resolved(repo, issue) on an issue that choose_next_issue listed *)
DepsResolved ==
    \E n \in DOMAIN tracker :
        /\ tracker[n].state = "open"
        /\ last' = [NoRun EXCEPT !.script = "deps_resolved", !.arg = n,
                                 !.ok = deps_resolved(tracker, tracker[n].body)]
        /\ UNCHANGED <<tracker, out_file, procs, workdir, repo_labels>>

(* python3 check_dependencies.py, without an argument *)
CheckDependenciesUsage ==
    /\ last' = [NoRun EXCEPT !.script = "check_dependencies usage",
                             !.exit = cd_process(tracker, <<>>)]
    /\ UNCHANGED <<tracker, out_file, procs, workdir, repo_labels>>

(* check_dependencies(issue_number) of get_next_issue.py; raised records that
   subprocess.run raised, exit the status of the process (-1: no process) *)
GniCheckDependencies ==
    \E n \in DOMAIN tracker, launched \in BOOLEAN :
        /\ last' = [NoRun EXCEPT !.script = "gni check_dependencies", !.arg = n,
                                 !.raised = ~launched,
                                 !.ok = gni_check_dependencies_run(tracker, n, launched),
                                 !.exit = IF launched THEN cd_process(tracker, <<n>>) ELSE -1]
        /\ UNCHANGED <<tracker, out_file, procs, workdir, repo_labels>>

NextResolver ==
    \/ CheckDependenciesMain
    \/ DepsResolved
    \/ CheckDependenciesUsage
    \/ GniCheckDependencies

SpecResolver == InitResolver /\ [][NextResolver]_vars

(* --------------------------------------- get_issue_status, alone ------ *)
(* One open issue whose labels are up to MaxStatusLabels of the marker labels
   of the four categories and two labels of no category. *)
StatusLabels ==
    {"ai:implementing", "done", "ai:failed", "ai:pr-failed", "blocked", "waiting",
     "wontfix", "skip", "bug", "P0"}

InitStatus ==
    /\ tracker \in [{1} -> OpenIssues(SubsetsUpTo(StatusLabels, MaxStatusLabels), {<<>>})]
    /\ out_file = Absent
    /\ last = NoRun
    /\ procs = NoProcs
    /\ workdir = NoFiles
    /\ repo_labels = {}

(* get_issue_status(issue) on an issue the tracker listed *)
GetIssueStatus ==
    \E n \in DOMAIN tracker :
        \E view \in LabelViews(tracker, {n}) :
            /\ last' = [NoRun EXCEPT !.script = "get_issue_status", !.arg = n,
                                     !.status = get_issue_status(view[n])]
            /\ UNCHANGED <<tracker, out_file, procs, workdir, repo_labels>>

NextStatus == GetIssueStatus

SpecStatus == InitStatus /\ [][NextStatus]_vars

(* ------------------------------------- the rank functions, alone ------ *)
(* One open issue that carries up to MaxExtraLabels of the label names. *)
InitRank ==
    /\ tracker \in [{1} -> OpenIssues(SubsetsUpTo(DOMAIN Chars, MaxExtraLabels), {<<>>})]
    /\ out_file = Absent
    /\ last = NoRun
    /\ procs = NoProcs
    /\ workdir = NoFiles
    /\ repo_labels = {}

(* the sort key of get_next_issue: PRIORITY_ORDER.get(extract_priority(x), 99) *)
ExtractPriority ==
    \E n \in DOMAIN tracker :
        \E view \in LabelViews(tracker, {n}) :
            /\ last' = [NoRun EXCEPT !.script = "extract_priority", !.arg = n,
                                     !.priority = gni_extract_priority(view[n]),
                                     !.rank = PRIORITY_ORDER(gni_extract_priority(view[n]))]
            /\ UNCHANGED <<tracker, out_file, procs, workdir, repo_labels>>

(* the sort key of choose_next_issue: prio(i) *)
Prio ==
    \E n \in DOMAIN tracker :
        \E view \in LabelViews(tracker, {n}) :
            /\ last' = [NoRun EXCEPT !.script = "prio", !.arg = n,
                                     !.rank = prio(view[n])]
            /\ UNCHANGED <<tracker, out_file, procs, workdir, repo_labels>>

NextRank == ExtractPriority \/ Prio

SpecRank == InitRank /\ [][NextRank]_vars

(* ---------------------------------- get_prioritized_issues.py, runs --- *)
(* Every open issue carries at most one marker label, and its body is empty
   or one token: a dependency reference or a priority word. *)
GpiLabelSets == {{}, {"ai:implementing"}, {"ai:failed"}, {"blocked"}, {"wontfix"}}
GpiTokens ==
    {Token("Requires", "", k) : k \in IssueIds}
    \cup {Token("P0", "", 0), Token("P1", "", 0)}
GpiBodies == {<<>>} \cup {<<t>> : t \in GpiTokens}

InitGpi ==
    /\ tracker \in [IssueIds -> {Missing, Closed} \cup OpenIssues(GpiLabelSets, GpiBodies)]
    /\ out_file = Absent
    /\ last = NoRun
    /\ procs = NoProcs
    /\ workdir = NoFiles
    /\ repo_labels = {}

(* python3 get_prioritized_issues.py, with FORCE_ISSUE = force when force # 0 *)
GetPrioritizedIssuesMain ==
    \E force \in 0..MaxIssue, collected \in get_open_issues(tracker) :
        \E view \in LabelViews(tracker, Range(collected)) :
            LET r == gpi_main(tracker, force, collected, view)
            IN  /\ last' = [NoRun EXCEPT !.script = "get_prioritized_issues",
                                         !.arg = force, !.number = r.next,
                                         !.list = r.list, !.checked = r.checked]
                /\ UNCHANGED <<tracker, out_file, procs, workdir, repo_labels>>

NextGpi == GetPrioritizedIssuesMain

SpecGpi == InitGpi /\ [][NextGpi]_vars

(* ------------------------------------------ all the scripts, runs ----- *)
(* Pools on which every script has something to do: open issues with or
   without a candidate marker, with or without a dependency. *)
AllLabelSets == {{}, {"ai:ready"}, {"ai:task"}, {"ai:ready", "ai:failed"}}
AllBodies == {<<>>} \cup {<<Token("Depends on", "", k)>> : k \in IssueIds}

InitAll ==
    /\ tracker \in [IssueIds -> {Missing, Closed} \cup OpenIssues(AllLabelSets, AllBodies)]
    /\ out_file = Absent
    /\ last = NoRun
    /\ procs = NoProcs
    /\ workdir = NoFiles
    /\ repo_labels = {}

NextAll ==
    \/ GetNextIssueForced
    \/ GetNextIssueMain
    \/ ChooseNextIssueMain
    \/ CheckDependenciesMain
    \/ GetPrioritizedIssuesMain

SpecAll == InitAll /\ [][NextAll]_vars

(* ------------------------------------ overlapping runs, step by step --- *)
(* Two callers run get_next_issue.py or get_prioritized_issues.py once each,
   their steps interleaved, while an external actor closes and deletes
   issues.  The hand-off file may be left by an earlier run. *)
RaceLabelSets == {{"ai:ready"}, {"ai:ready", "P0"}}
RaceBodies == {<<>>} \cup {<<Token("Depends on", "", k)>> : k \in IssueIds}
StaleFile == [exists |-> TRUE, issue_number |-> 1, priority |-> <<"P", "9">>, torn |-> FALSE]

InitRace ==
    /\ tracker \in [IssueIds -> {Missing, Closed} \cup OpenIssues(RaceLabelSets, RaceBodies)]
    /\ out_file \in {Absent, StaleFile}
    /\ last = NoRun
    /\ procs = NoProcs
    /\ workdir = NoFiles
    /\ repo_labels = {}

(* The record of a get_next_issue.py run that has ended. *)
gni_record(proc, raised) ==
    [NoRun EXCEPT !.script = "get_next_issue", !.arg = proc.force,
                  !.raised = raised,
                  !.number = proc.next.number,
                  !.priority = proc.next.priority,
                  !.checked = proc.next.checked,
                  !.exit = IF raised THEN 1 ELSE 0]

(* main(), line 126: next_issue = get_next_issue().  An exception of the
   forced fetch ends the run. *)
GniStart(p) ==
    /\ procs[p].pc = "idle"
    /\ \E force \in 0..MaxIssue, issues \in get_issues(tracker, "ai:ready") :
          \E view \in LabelViews(tracker, Range(issues) \cup ({force} \cap DOMAIN tracker)) :
              LET r == get_next_issue(tracker, force, issues, view)
                  proc == [Idle EXCEPT !.script = "get_next_issue", !.force = force,
                                       !.next = r,
                                       !.pc = IF r.raised THEN "failed"
                                              ELSE IF r.number # 0 THEN "open"
                                              ELSE "exists",
                                       !.fault = IF r.raised THEN "lookup" ELSE ""]
              IN  /\ procs' = [procs EXCEPT ![p] = proc]
                  /\ last' = IF r.raised THEN gni_record(proc, TRUE) ELSE last
    /\ UNCHANGED <<tracker, out_file, workdir, repo_labels>>

(* line 130: open('out/next_issue.json', 'w') creates or truncates the file *)
GniOpen(p) ==
    /\ procs[p].pc = "open"
    /\ out_file' = [Absent EXCEPT !.exists = TRUE]
    /\ procs' = [procs EXCEPT ![p].pc = "dump"]
    /\ UNCHANGED <<tracker, last, workdir, repo_labels>>

(* lines 131-132: json.dump and the close that flushes it, one write at
   offset 0 of the file opened at line 130.  When that file has been removed
   the text goes to the unlinked file; when the other run has written its
   result since the truncation and the two texts differ, the file holds this
   result or, when this text is the shorter one, this text followed by the
   tail of the other. *)
GniDump(p) ==
    /\ procs[p].pc = "dump"
    /\ LET mine == dump(procs[p].next)
       IN  out_file' \in
               IF ~out_file.exists THEN {out_file}
               ELSE IF out_file.issue_number = 0 \/ out_file = mine THEN {mine}
               ELSE {mine, [mine EXCEPT !.torn = TRUE]}
    /\ procs' = [procs EXCEPT ![p].pc = "done"]
    /\ last' = gni_record(procs[p], FALSE)
    /\ UNCHANGED <<tracker, workdir, repo_labels>>

(* line 136: os.path.exists('out/next_issue.json') *)
GniExists(p) ==
    /\ procs[p].pc = "exists"
    /\ procs' = [procs EXCEPT ![p].pc = IF out_file.exists THEN "remove" ELSE "done"]
    /\ last' = IF out_file.exists THEN last ELSE gni_record(procs[p], FALSE)
    /\ UNCHANGED <<tracker, out_file, workdir, repo_labels>>

(* line 137: os.remove('out/next_issue.json') raises FileNotFoundError when
   the file is no longer there *)
GniRemove(p) ==
    /\ procs[p].pc = "remove"
    /\ IF out_file.exists
       THEN /\ out_file' = Absent
            /\ procs' = [procs EXCEPT ![p].pc = "done"]
            /\ last' = gni_record(procs[p], FALSE)
       ELSE /\ out_file' = out_file
            /\ procs' = [procs EXCEPT ![p].pc = "failed", ![p].fault = "remove"]
            /\ last' = gni_record(procs[p], TRUE)
    /\ UNCHANGED <<tracker, workdir, repo_labels>>

(* get_prioritized_issues.py, lines 118-143: the open issues are listed and
   issue_list and all_issues_dict are built from them *)
GpiList(p) ==
    /\ procs[p].pc = "idle"
    /\ \E collected \in get_open_issues(tracker) :
          procs' = [procs EXCEPT ![p] = [Idle EXCEPT !.script = "get_prioritized_issues",
                                                     !.pc = "listed",
                                                     !.snapshot = tracker,
                                                     !.order = collected]]
    /\ UNCHANGED <<tracker, out_file, last, workdir, repo_labels>>

(* lines 145-189: the dependency pass re-fetches every ready issue with
   repo.get_issue(), which raises when the issue no longer resolves; then the
   list is sorted and written *)
GpiFinish(p) ==
    /\ procs[p].pc = "listed"
    /\ \E view \in LabelViews(procs[p].snapshot, Range(procs[p].order)) :
          LET proc == procs[p]
              ready == {n \in Range(proc.order) : get_issue_status(view[n]) = "ready"}
              raised == \E n \in ready : ~Resolves(tracker, n)
              r == gpi_run(proc.snapshot, tracker, 0, proc.order, view)
          IN  IF raised
              THEN /\ procs' = [procs EXCEPT ![p].pc = "failed", ![p].fault = "lookup"]
                   /\ last' = [NoRun EXCEPT !.script = "get_prioritized_issues",
                                            !.raised = TRUE, !.exit = 1]
              ELSE /\ procs' = [procs EXCEPT ![p].pc = "done"]
                   /\ last' = [NoRun EXCEPT !.script = "get_prioritized_issues",
                                            !.number = r.next, !.list = r.list,
                                            !.checked = r.checked]
    /\ UNCHANGED <<tracker, out_file, workdir, repo_labels>>

(* the external actor *)
CloseIssue ==
    \E n \in DOMAIN tracker :
        /\ tracker[n].state = "open"
        /\ tracker' = [tracker EXCEPT ![n].state = "closed"]
        /\ UNCHANGED <<out_file, last, procs, workdir, repo_labels>>

DeleteIssue ==
    \E n \in DOMAIN tracker :
        /\ tracker[n].state # "missing"
        /\ tracker' = [tracker EXCEPT ![n] = Missing]
        /\ UNCHANGED <<out_file, last, procs, workdir, repo_labels>>

NextRace ==
    \/ \E p \in Callers :
          \/ GniStart(p)
          \/ GniOpen(p)
          \/ GniDump(p)
          \/ GniExists(p)
          \/ GniRemove(p)
          \/ GpiList(p)
          \/ GpiFinish(p)
    \/ CloseIssue
    \/ DeleteIssue

SpecRace == InitRace /\ [][NextRace]_vars

(* ------------------------------------------------ create_issues.py ---- *)
(* out/issues.plan.json: items with key (by position), labels, priority ("":
   none) and depends_on; summary and acceptance lines carry no reference and
   are left out of the bodies. A plan without items stands also for a missing
   plan file: main() leaves through SystemExit in both cases. *)
Keys == <<"A", "B", "C", "D">>
CpLabels == <<"cp:1", "cp:2", "cp:3", "cp:4">>
PlanKeys == {Keys[i] : i \in 1..MaxItems}
DependsOn ==
    {<<>>, <<Keys[1], Keys[2]>>} \cup {<<k>> : k \in PlanKeys \cup {"Z"}}
ItemShapes == [labels : {{}, {"ai:task"}}, priority : {"", "P0"}, depends_on : DependsOn]
PlansOfLen(n) ==
    {[i \in 1..n |-> [key |-> Keys[i], labels |-> f[i].labels,
                      priority |-> f[i].priority, depends_on |-> f[i].depends_on]] :
        f \in [1..n -> ItemShapes]}
Plans == UNION {PlansOfLen(n) : n \in 0..MaxItems}

(* The labels ensure_labels collects: those of the items, the priorities and
   cp:1..cp:n. *)
item_labels(items, i) ==
    items[i].labels
    \cup (IF items[i].priority # "" THEN {items[i].priority} ELSE {})
    \cup {CpLabels[i]}
need_labels(items) == UNION {item_labels(items, i) : i \in DOMAIN items}

(* ensure_labels(repo, items): gh label create is called for every needed
   label that the listing did not return (listed: gh label list succeeded);
   made are the labels whose creation succeeded (a failure, for want of
   permission for instance, is only warned about). *)
ensure_labels(existing, items, listed, made) ==
    [labels |-> existing \cup made,
     calls |-> need_labels(items) \ (IF listed THEN existing ELSE {})]

(* build_body(item): the priority line and the line
   `**izon-task(key)**: KEY1, KEY2', which holds no number. *)
build_body(item) ==
    (IF item.priority # "" THEN <<Token(item.priority, "", 0)>> ELSE <<>>)
    \o (IF item.depends_on # <<>> THEN <<Token("izon", "task(key)**:", 0)>> ELSE <<>>)

(* dep_line: `**izon-task**: #n1, #n2'; between the marker and the first
   number stand `**: ', before every further number `, '. *)
dep_line(dep_nums) ==
    [i \in DOMAIN dep_nums |->
        IF i = 1 THEN Token("izon", "task**:", dep_nums[i]) ELSE Token(",", "", dep_nums[i])]

(* created["map"][d] for d in depends if d in created["map"], where map holds
   the numbers of the items by position *)
dep_nums_of(items, map, depends) ==
    LET known == SelectSeq(depends, LAMBDA d : \E i \in DOMAIN map : items[i].key = d)
    IN  [j \in DOMAIN known |-> map[CHOOSE i \in DOMAIN map : items[i].key = known[j]]]

NextNumber(pool) ==
    Cardinality({n \in DOMAIN pool : pool[n].state # "missing"}) + 1

(* main(): count is the number of gh issue create calls that succeed before
   one fails (count = Len(items): none fails), patch_ok whether the gh api
   calls of the second pass succeed. The tracker numbers the issues in
   creation order. *)
ci_main(pool, existing, files, dry_run, listed, made, count, patch_ok) ==
    LET items == files.plan
        n == Len(items)
        run == [NoRun EXCEPT !.script = "create_issues", !.dry_run = dry_run]
        unchanged == [tracker |-> pool, repo_labels |-> existing, workdir |-> files]
    IN  IF ~files.plan_exists \/ items = <<>>
        THEN unchanged @@ [last |-> [run EXCEPT !.exit = 1]]
        ELSE
        LET el == ensure_labels(existing, items, listed, made)
            calls0 == [NoCalls EXCEPT !.label_create = el.calls]
            base == NextNumber(pool) - 1
            map == [i \in 1..count |-> base + i]
            pool1 == [k \in DOMAIN pool |->
                         IF k \in Range(map)
                         THEN [state |-> "open",
                               labels |-> item_labels(items, k - base),
                               body |-> build_body(items[k - base])]
                         ELSE pool[k]]
            calls1 == [calls0 EXCEPT !.issue_create =
                          [i \in 1..(IF count < n THEN count + 1 ELSE n) |-> items[i].key]]
            nums == [i \in 1..n |-> dep_nums_of(items, map, items[i].depends_on)]
            patched == SelectSeq(map, LAMBDA k : nums[k - base] # <<>>)
            pool2 == [k \in DOMAIN pool |->
                         IF k \in Range(patched)
                         THEN [pool1[k] EXCEPT !.body = @ \o dep_line(nums[k - base])]
                         ELSE pool1[k]]
        IN  IF dry_run
            THEN [tracker |-> pool, repo_labels |-> el.labels, workdir |-> files,
                  last |-> [run EXCEPT !.calls = calls0]]
            ELSE IF count < n
            THEN [tracker |-> pool1, repo_labels |-> el.labels, workdir |-> files,
                  last |-> [run EXCEPT !.raised = TRUE, !.exit = 1, !.calls = calls1]]
            ELSE IF patched # <<>> /\ ~patch_ok
            THEN [tracker |-> pool1, repo_labels |-> el.labels, workdir |-> files,
                  last |-> [run EXCEPT !.raised = TRUE, !.exit = 1,
                                       !.calls = [calls1 EXCEPT !.issue_patch = <<Head(patched)>>]]]
            ELSE [tracker |-> pool2, repo_labels |-> el.labels,
                  workdir |-> [files EXCEPT !.created_exists = TRUE, !.created = map],
                  last |-> [run EXCEPT !.calls = [calls1 EXCEPT !.issue_patch = patched]]]

InitCreate ==
    /\ tracker = [n \in IssueIds |-> Missing]
    /\ out_file = Absent
    /\ last = NoRun
    /\ procs = NoProcs
    /\ workdir \in {[plan_exists |-> plan # <<>>, plan |-> plan,
                      created_exists |-> FALSE, created |-> <<>>] : plan \in Plans}
    /\ repo_labels \in {{}, {"ai:task"}}

(* python3 scripts/create_issues.py --repo R [--dry-run] *)
CreateIssuesMain ==
    \E dry_run, listed, patch_ok \in BOOLEAN :
        \E made \in {{}, need_labels(workdir.plan) \ repo_labels},
           count \in 0..Len(workdir.plan) :
            LET r == ci_main(tracker, repo_labels, workdir, dry_run, listed, made,
                             count, patch_ok)
            IN  /\ dry_run \/ NextNumber(tracker) + Len(workdir.plan) - 1 <= MaxIssue
                /\ tracker' = r.tracker
                /\ repo_labels' = r.repo_labels
                /\ workdir' = r.workdir
                /\ last' = r.last
                /\ UNCHANGED <<out_file, procs>>

NextCreate == CreateIssuesMain \/ CheckDependenciesMain \/ DepsResolved

SpecCreate == InitCreate /\ [][NextCreate]_vars

(* ------------------------------------------------ run_all_tests.py ---- *)
(* The working directory as the script sees it: package.json (absent, not
   parseable, without a test command, or with test commands whose return
   codes are rcs), the Python project (absent, without test files, or with
   tests that pytest ends with return code rcs[1]) and out/test_report.json. *)
NodeProjects ==
    [kind : {"absent", "invalid", "no command"}, rcs : {<<>>}]
    \cup [kind : {"commands"}, rcs : SeqsUpTo({0, 1}, MaxCommands) \ {<<>>}]
PythonProjects ==
    [kind : {"absent", "no tests"}, rcs : {<<>>}]
    \cup [kind : {"tests"}, rcs : {<<0>>, <<1>>, <<5>>}]
NoTestReport == [results |-> <<>>, all_passed |-> FALSE]

detect_project_type(files) ==
    (IF files.nodejs.kind # "absent" THEN <<"nodejs">> ELSE <<>>)
    \o (IF files.python.kind # "absent" THEN <<"python">> ELSE <<>>)

(* run_nodejs_tests(): the boolean returned and results['success'] *)
run_nodejs_tests(node) ==
    IF node.kind = "no command"
    THEN [success |-> FALSE, results |-> [type |-> "nodejs", success |-> FALSE]]
    ELSE LET all_success == \A i \in DOMAIN node.rcs : node.rcs[i] = 0
         IN  [success |-> all_success,
              results |-> [type |-> "nodejs", success |-> all_success]]

(* run_python_tests(): without test directories and test files it returns
   True with results['success'] as initialised *)
run_python_tests(py) ==
    IF py.kind = "no tests"
    THEN [success |-> TRUE, results |-> [type |-> "python", success |-> FALSE]]
    ELSE [success |-> py.rcs[1] = 0,
          results |-> [type |-> "python", success |-> py.rcs[1] = 0]]

(* generate_test_report(all_results): the part of the report that depends on
   the outcomes *)
generate_test_report(all_results) ==
    [results |-> all_results,
     all_passed |-> \A i \in DOMAIN all_results : all_results[i].success]

(* main(): json.load of a package.json that is not JSON raises in
   run_nodejs_tests, before any report is written *)
rat_main(files) ==
    LET project_types == detect_project_type(files)
        run == [NoRun EXCEPT !.script = "run_all_tests"]
        node == run_nodejs_tests(files.nodejs)
        py == run_python_tests(files.python)
        has(t) == \E i \in DOMAIN project_types : project_types[i] = t
        all_results == (IF has("nodejs") THEN <<node.results>> ELSE <<>>)
                       \o (IF has("python") THEN <<py.results>> ELSE <<>>)
        overall_success == /\ has("nodejs") => node.success
                           /\ has("python") => py.success
    IN  IF project_types = <<>>
        THEN [workdir |-> files, last |-> [run EXCEPT !.exit = 0, !.status = "no report"]]
        ELSE IF files.nodejs.kind = "invalid"
        THEN [workdir |-> files,
              last |-> [run EXCEPT !.raised = TRUE, !.exit = 1, !.status = "no report"]]
        ELSE [workdir |-> [files EXCEPT !.report_exists = TRUE,
                                        !.report = generate_test_report(all_results)],
              last |-> [run EXCEPT !.exit = IF overall_success THEN 0 ELSE 1,
                                   !.status = "report"]]

InitTests ==
    /\ tracker = [n \in IssueIds |-> Missing]
    /\ out_file = Absent
    /\ last = NoRun
    /\ procs = NoProcs
    /\ workdir \in [nodejs : NodeProjects, python : PythonProjects,
                     report_exists : {FALSE}, report : {NoTestReport}]
    /\ repo_labels = {}

(* python3 scripts/run_all_tests.py *)
RunAllTestsMain ==
    LET r == rat_main(workdir)
    IN  /\ workdir' = r.workdir
        /\ last' = r.last
        /\ UNCHANGED <<tracker, out_file, procs, repo_labels>>

NextTests == RunAllTestsMain

SpecTests == InitTests /\ [][NextTests]_vars

(* ----------------------------------------------- security_check.py ---- *)
(* What the four checks find in the working directory: the number of lines
   that match a secret pattern, the output of npm audit and of safety check
   (absent: not run; invalid: not JSON; json: the severities of the entries;
   malformed: JSON whose entries are not objects), the severities of the
   code patterns matched, and next.config.js (absent, unreadable, or read with a
   number of required headers missing). *)
Findings(kinds, sevs, n) ==
    [kind : kinds, found : {<<>>}] \cup [kind : {"json"}, found : SeqsUpTo(sevs, n)]
NpmAudits == Findings({"absent", "invalid"}, {"critical", "high", "moderate"}, MaxVulns)
SafetyChecks == Findings({"absent", "invalid", "malformed"}, {"high", ""}, MaxVulns)
CodeMatches == SeqsUpTo({"critical", "high", "warning"}, MaxFindings)
NextConfigs ==
    [kind : {"absent", "unreadable"}, missing : {0}]
    \cup [kind : {"read"}, missing : 0..MaxFindings]
NoSecurityReport == [issues |-> <<>>, critical |-> 0, high |-> 0, warning |-> 0,
                     passed |-> FALSE]
Issue(sev, type) == [severity |-> sev, type |-> type]

check_for_secrets_high(secrets) ==
    LET issues == [i \in 1..secrets |-> Issue("high", "Hardcoded")]
    IN  [passed |-> issues = <<>>, issues |-> issues]

(* check_for_secrets(): one issue of severity critical per match *)
check_for_secrets(secrets) ==
    LET issues == [i \in 1..secrets |-> Issue("critical", "Hardcoded")]
    IN  [passed |-> issues = <<>>, issues |-> issues]

Criticals(issues) == SelectSeq(issues, LAMBDA i : i.severity = "critical")

(* check_dependencies() *)
sec_check_dependencies(npm, safety) ==
    LET n == [i \in DOMAIN npm.found |->
                 Issue(IF npm.found[i] \in {"critical", "high"} THEN npm.found[i]
                       ELSE "warning", "Dependency Vulnerability")]
        p == [i \in DOMAIN safety.found |->
                 Issue(IF safety.found[i] = "high" THEN "high" ELSE "warning",
                       "Dependency Vulnerability")]
        issues == n \o p
    IN  [passed |-> Criticals(issues) = <<>>, issues |-> issues]

(* check_code_security() *)
check_code_security(code) ==
    LET issues == [i \in DOMAIN code |-> Issue(code[i], "Code")]
    IN  [passed |-> Criticals(issues) = <<>>, issues |-> issues]

(* check_security_headers() *)
check_security_headers(config) ==
    [passed |-> TRUE,
     issues |-> [i \in 1..config.missing |-> Issue("warning", "Missing Security Header")]]

(* generate_security_report(all_issues) *)
generate_security_report(all_issues) ==
    LET count(sev) == Len(SelectSeq(all_issues, LAMBDA i : i.severity = sev))
    IN  [issues |-> all_issues, critical |-> count("critical"), high |-> count("high"),
         warning |-> count("warning"), passed |-> count("critical") = 0]

(* main(): vuln.get on an entry that is no object (line 154) and open() of
   a next.config.js that cannot be read (line 242) raise before the report is
   written *)
sec_main(files) ==
    LET run == [NoRun EXCEPT !.script = "security_check"]
        s == check_for_secrets(files.secrets)
        d == sec_check_dependencies(files.npm, files.safety)
        c == check_code_security(files.code)
        h == check_security_headers(files.config)
        all_issues == s.issues \o d.issues \o c.issues \o h.issues
        all_passed == s.passed /\ Criticals(d.issues) = <<>> /\ Criticals(c.issues) = <<>>
    IN  IF files.safety.kind = "malformed" \/ files.config.kind = "unreadable"
        THEN [workdir |-> files,
              last |-> [run EXCEPT !.raised = TRUE, !.exit = 1, !.status = "no report"]]
        ELSE [workdir |-> [files EXCEPT !.report_exists = TRUE,
                                        !.report = generate_security_report(all_issues)],
              last |-> [run EXCEPT !.exit = IF all_passed THEN 0 ELSE 1,
                                   !.status = "report", !.list = all_issues]]

InitSecurity ==
    /\ tracker = [n \in IssueIds |-> Missing]
    /\ out_file = Absent
    /\ last = NoRun
    /\ procs = NoProcs
    /\ workdir \in [secrets : 0..MaxFindings, npm : NpmAudits, safety : SafetyChecks,
                     code : CodeMatches, config : NextConfigs,
                     report_exists : {FALSE}, report : {NoSecurityReport}]
    /\ repo_labels = {}

(* python3 scripts/security_check.py *)
SecurityCheckMain ==
    LET r == sec_main(workdir)
    IN  /\ workdir' = r.workdir
        /\ last' = r.last
        /\ UNCHANGED <<tracker, out_file, procs, repo_labels>>

NextSecurity == SecurityCheckMain

SpecSecurity == InitSecurity /\ [][NextSecurity]_vars

(* ------------------------------------------------------- properties --- *)
(* The subject of the last resolver run and the ids each resolver extracted
   from its body. *)
Subject == tracker[last.arg]
cd_refs == Range(findall(cd_pattern, Subject.body))
cni_refs == Range(findall(cni_pattern, Subject.body))
AllClosed(refs) == \A d \in refs : Resolves(tracker, d) /\ tracker[d].state = "closed"
AllResolve(refs) == \A d \in refs : Resolves(tracker, d)
RanCd == last.script = "check_dependencies" /\ ~last.raised
RanDeps == last.script = "deps_resolved"

(* C1: when every lookup succeeds, each resolver returns true exactly when
   the set of ids it extracted from the body is empty or every referenced
   issue is closed; one open referenced issue makes it return false. *)
C1_TrueIffAllClosed ==
    /\ (RanCd /\ AllResolve(cd_refs)) =>
           (last.ok <=> (cd_refs = {} \/ AllClosed(cd_refs)))
    /\ (RanDeps /\ AllResolve(cni_refs)) =>
           (last.ok <=> (cni_refs = {} \/ AllClosed(cni_refs)))
    /\ (RanCd /\ AllResolve(cd_refs)) => ((last.exit = 0) <=> last.ok)

C1_Witness ==
    /\ RanCd /\ last.ok /\ last.exit = 0
    /\ cd_refs # {} /\ AllClosed(cd_refs)

(* C2: when the lookup of one referenced id fails, each resolver returns
   false whatever the states of the other referenced issues. *)
C2_FailedLookupBlocks ==
    /\ (RanCd /\ ~AllResolve(cd_refs)) => (~last.ok /\ last.exit # 0)
    /\ (RanDeps /\ ~AllResolve(cni_refs)) => ~last.ok

C2_Witness ==
    /\ RanDeps /\ ~last.ok
    /\ \E d \in cni_refs : ~Resolves(tracker, d)
    /\ \E d \in cni_refs : Resolves(tracker, d) /\ tracker[d].state = "closed"

(* The candidates of the two schedulers, the candidates each resolver finds
   unblocked, and the dependencies each resolver reads in a body. *)
gni_candidates == {n \in DOMAIN tracker : tracker[n].state = "open" /\ "ai:ready" \in tracker[n].labels}
cni_candidates == {n \in DOMAIN tracker : tracker[n].state = "open" /\ "ai:task" \in tracker[n].labels}
gni_unblocked == {n \in gni_candidates : gni_check_dependencies(tracker, n)}
cni_unblocked == {n \in cni_candidates : deps_resolved(tracker, tracker[n].body)}
gni_deps(n) == Range(findall(cd_pattern, tracker[n].body))
cni_deps(n) == Range(findall(cni_pattern, tracker[n].body))
IsOpen(d) == Resolves(tracker, d) /\ tracker[d].state = "open"
RanGni == last.script = "get_next_issue" /\ last.arg = 0
RanForced == last.script = "get_next_issue" /\ last.arg # 0
RanCni == last.script = "choose_next_issue"
FailureMarkers == {"ai:failed", "ai:test-failed", "ai:review-failed", "ai:security-failed", "ai:pr-failed"}

(* n is the least of U in the order (rank ascending, then number ascending). *)
Least(n, U, rank) ==
    /\ n \in U
    /\ \A c \in U \ {n} : rank[n] < rank[c] \/ (rank[n] = rank[c] /\ n < c)

(* The rank of a label set: the position in P0..P9 of the most urgent
   priority label it carries, and one past the last when it carries none. *)
LabelRank(labels) ==
    IF \E i \in DOMAIN PRIORITIES : PRIORITIES[i] \in labels
    THEN CHOOSE i \in DOMAIN PRIORITIES :
             /\ PRIORITIES[i] \in labels
             /\ \A j \in DOMAIN PRIORITIES : PRIORITIES[j] \in labels => i <= j
    ELSE Len(PRIORITIES) + 1

(* C4: without a forced id, each scheduler returns the unblocked candidate
   that is least in (rank, number), so the smaller number of two candidates
   of one rank, and returns none exactly when no candidate is unblocked. *)
C4_LeastUnblocked ==
    /\ RanGni =>
          /\ ~last.raised
          /\ (last.number = 0) <=> (gni_unblocked = {})
          /\ last.number # 0 =>
                Least(last.number, gni_unblocked,
                      [n \in gni_candidates |-> LabelRank(tracker[n].labels)])
    /\ RanCni =>
          /\ (last.number = 0) <=> (cni_unblocked = {})
          /\ (last.number = 0) <=> (last.exit = 1)
          /\ last.number # 0 =>
                Least(last.number, cni_unblocked,
                      [n \in cni_candidates |-> LabelRank(tracker[n].labels)])

(* C5: of two unblocked candidates, one carrying P0 (and not P1) and the
   other P1 (and not P0), each scheduler returns the one carrying P0. *)
P0vsP1(a, b) ==
    /\ "P0" \in tracker[a].labels /\ "P1" \notin tracker[a].labels
    /\ "P1" \in tracker[b].labels /\ "P0" \notin tracker[b].labels

C5_P0BeforeP1 ==
    /\ RanGni => \A a, b \in gni_unblocked :
                     (gni_candidates = {a, b} /\ P0vsP1(a, b)) => last.number = a
    /\ RanCni => \A a, b \in cni_unblocked :
                     (cni_candidates = {a, b} /\ P0vsP1(a, b)) => last.number = a

(* C6: without a forced id, an issue that declares a dependency on an open
   issue is never returned. *)
C6_OpenDependencyBlocks ==
    /\ (RanGni /\ last.number # 0) => \A d \in gni_deps(last.number) : ~IsOpen(d)
    /\ (RanCni /\ last.number # 0) => \A d \in cni_deps(last.number) : ~IsOpen(d)

C6_Witness ==
    /\ RanGni /\ last.number = 2
    /\ gni_candidates = {1, 2}
    /\ "P0" \in tracker[1].labels /\ "performance" \notin tracker[1].labels
    /\ "P0" \notin tracker[2].labels
    /\ \E d \in gni_deps(1) : IsOpen(d)

(* C7: two runs of the same scheduler with the same forced id on the same
   pool return the same issue (the pool never changes in Spec). *)
C7_SameRunSameIssue ==
    [][(last.script # "" /\ last'.script = last.script /\ last'.arg = last.arg)
          => last'.number = last.number]_vars

(* C8: without a forced id, an open issue that carries a failure marker is
   never returned. *)
C8_FailedNeverReturned ==
    ((RanGni \/ RanCni) /\ last.number # 0) =>
        tracker[last.number].labels \cap FailureMarkers = {}

(* C10: a forced id whose issue is open is returned as it is, whatever its
   dependencies, labels and priority. *)
C10_ForcedOpenReturned ==
    (RanForced /\ IsOpen(last.arg)) =>
        /\ ~last.raised
        /\ last.number = last.arg
        /\ out_file.exists /\ out_file.issue_number = last.arg

C10_Witness ==
    /\ RanForced /\ last.number = last.arg /\ last.number # 0
    /\ \E d \in gni_deps(last.arg) : d # last.arg /\ IsOpen(d)
    /\ "ai:failed" \in tracker[last.arg].labels
    /\ last.priority = <<"P", "9">>
    /\ \E n \in gni_unblocked : "P0" \in tracker[n].labels

(* C3: in get_prioritized_issues, a ready issue whose body references an id
   that does not resolve is marked blocked_by_dependency, never ready. *)
gpi_deps(n) == Range(findall(gpi_pattern, tracker[n].body))
RanGpi == last.script = "get_prioritized_issues" /\ last.arg = 0
UnresolvedReference(n) == \E d \in gpi_deps(n) : ~Resolves(tracker, d)

C3_UnknownReferenceBlocks ==
    RanGpi =>
        \A i \in DOMAIN last.list :
            LET d == last.list[i]
            IN  (IsOpen(d.number)
                 /\ get_issue_status(CHOOSE p \in Perms(tracker[d.number].labels) : TRUE) = "ready"
                 /\ UnresolvedReference(d.number))
                => d.status = "blocked_by_dependency"

(* C9: get_issue_status returns the category of the first of the four marker
   sets, in the order in_progress, needs_human_intervention, blocked, skip,
   that shares a label with the issue, and ready exactly when none does. *)
MarkerSets ==
    <<{"ai:implementing", "ai:pr-created", "ai:completed", "done", "closed"},
      FailureMarkers,
      {"blocked", "waiting", "dependency"},
      {"wontfix", "duplicate", "skip"}>>
Categories == <<"in_progress", "needs_human_intervention", "blocked", "skip">>
Hits(labels) == {i \in DOMAIN MarkerSets : MarkerSets[i] \cap labels # {}}
RanStatus == last.script = "get_issue_status"

C9_StatusPrecedence ==
    RanStatus =>
        LET hits == Hits(tracker[last.arg].labels)
        IN  /\ hits # {} =>
                 \E i \in hits : /\ \A j \in hits : i <= j
                                  /\ last.status = Categories[i]
            /\ (last.status = "ready") <=> (hits = {})

C9_Witness ==
    /\ RanStatus /\ last.status = "needs_human_intervention"
    /\ Hits(tracker[last.arg].labels) = {2, 3, 4}

(* C11: a forced id whose issue is closed gives an outcome (value returned,
   exit status, hand-off file) that differs from the outcome of a run without
   a forced id that finds no candidate, and selects no other issue. *)
RanForcedClosed ==
    RanForced /\ Resolves(tracker, last.arg) /\ tracker[last.arg].state = "closed"
Exhausted == get_next_issue(tracker, 0, <<>>, <<>>)

C11_ClosedForcedDistinct ==
    RanForcedClosed =>
        /\ last.number = 0
        /\ <<last.raised, last.number, last.priority, last.exit, out_file>>
               # <<Exhausted.raised, Exhausted.number, Exhausted.priority, 0, Absent>>

(* C12: when no candidate is unblocked, each scheduler ends without an
   exception, selects nothing and exits with status 0. *)
C12_NoneIsNotFailure ==
    /\ (RanGni /\ gni_unblocked = {}) =>
           (~last.raised /\ last.number = 0 /\ last.exit = 0 /\ ~out_file.exists)
    /\ (RanCni /\ cni_unblocked = {}) =>
           (~last.raised /\ last.number = 0 /\ last.exit = 0)

(* C13: a candidate one of whose references fails to resolve is not returned,
   the run does not end in an exception, and an unblocked candidate is still
   returned when there is one. *)
FailedLookup(deps) == \E d \in deps : ~Resolves(tracker, d)

C13_LookupFailureIsLocal ==
    /\ (RanGni /\ \E c \in gni_candidates : FailedLookup(gni_deps(c))) =>
           /\ ~last.raised
           /\ last.number # 0 => ~FailedLookup(gni_deps(last.number))
           /\ gni_unblocked # {} => last.number \in gni_unblocked
    /\ (RanCni /\ \E c \in cni_candidates : FailedLookup(cni_deps(c))) =>
           /\ ~last.raised
           /\ last.number # 0 => ~FailedLookup(cni_deps(last.number))
           /\ cni_unblocked # {} => last.number \in cni_unblocked

C13_Witness ==
    /\ RanGni /\ last.number = 2
    /\ gni_candidates = {1, 2}
    /\ tracker[1].labels = {"ai:ready", "P0"}
    /\ tracker[2].labels = {"ai:ready", "P1"}
    /\ FailedLookup(gni_deps(1))

(* C15: the resolver is called on candidates in strictly increasing
   (rank, number) order, and the issue returned is the last one it was called
   on: no candidate after it is looked up. *)
RunRank ==
    [n \in DOMAIN tracker |->
        IF last.script = "get_prioritized_issues"
        THEN priority_order(gpi_extract_priority(tracker[n].body))
        ELSE LabelRank(tracker[n].labels)]

C15_LazyInRankOrder ==
    (last.script \in {"get_next_issue", "choose_next_issue", "get_prioritized_issues"}
     /\ last.arg = 0) =>
        /\ \A i, j \in DOMAIN last.checked :
               i < j => KeyLess(<<RunRank[last.checked[i]], last.checked[i]>>,
                                <<RunRank[last.checked[j]], last.checked[j]>>)
        /\ last.number # 0 =>
               (last.checked # <<>> /\ last.checked[Len(last.checked)] = last.number)

(* C17: a label set that holds exactly one priority tag has that tag's rank,
   and a label set that holds none has a rank after the rank of every tag. *)
GniTags == <<"P0", "P1", "P2", "P3">>
TagsOf(tags) == {i \in DOMAIN tags : tags[i] \in tracker[last.arg].labels}
ExactRank(tags) ==
    /\ \A i \in DOMAIN tags : TagsOf(tags) = {i} => last.rank = i - 1
    /\ TagsOf(tags) = {} => last.rank > Len(tags) - 1

C17_RankByExactLabel ==
    /\ last.script = "extract_priority" => ExactRank(GniTags)
    /\ last.script = "prio" => ExactRank(PRIORITIES)

(* C18: check_dependencies.py looks up every reference: the unresolved list
   holds, in body order, exactly the references that are open or do not
   resolve, and the boolean is true exactly when the list is empty. *)
Unresolved(d) == ~Resolves(tracker, d) \/ tracker[d].state = "open"

C18_UnresolvedComplete ==
    RanCd =>
        LET m == findall(cd_pattern, Subject.body)
            u == last.unresolved
            bad == {i \in DOMAIN m : Unresolved(m[i])}
        IN  /\ Len(u) = Cardinality(bad)
            /\ \E g \in [DOMAIN u -> bad] :
                   /\ \A i, j \in DOMAIN u : i < j => g[i] < g[j]
                   /\ \A i \in DOMAIN u : u[i] = m[g[i]]
            /\ last.ok <=> (u = <<>>)
            /\ (last.exit = 0) <=> last.ok

C18_Witness ==
    /\ RanCd /\ ~last.ok
    /\ Len(last.unresolved) = 2
    /\ Resolves(tracker, last.unresolved[1]) /\ tracker[last.unresolved[1]].state = "open"
    /\ ~Resolves(tracker, last.unresolved[2])

(* C20: each resolver returns the same boolean for every body that declares
   the same set of ids, with references repeated or in another order: the
   bodies of up to MaxRefs references taken from the body of the run. *)
SameIds(pattern, b) ==
    Range(findall(pattern, b)) = Range(findall(pattern, Subject.body))
WithBody(b) == [tracker EXCEPT ![last.arg].body = b]
Rearranged == SeqsUpTo(Range(Subject.body), MaxRefs)

C20_ReferencesAsSet ==
    /\ (RanCd /\ Subject.state = "open") =>
           \A b \in Rearranged :
               SameIds(cd_pattern, b) =>
                   cd_check_dependencies(WithBody(b), last.arg).ok = last.ok
    /\ RanDeps =>
           \A b \in Rearranged :
               SameIds(cni_pattern, b) => deps_resolved(WithBody(b), b) = last.ok

C20_Witness ==
    /\ RanDeps /\ ~last.ok
    /\ Len(findall(cni_pattern, Subject.body)) = 2
    /\ AllResolve(cni_refs)
    /\ tracker[findall(cni_pattern, Subject.body)[1]].state = "closed"
    /\ tracker[findall(cni_pattern, Subject.body)[2]].state = "open"

(* C16: no run of a scheduler or resolver script changes an issue of the
   tracker, on any path. *)
C16_TrackerUnchanged == [][tracker' = tracker]_vars

C16_Witness ==
    /\ RanForced /\ last.number = last.arg /\ out_file.exists
    /\ \E n \in DOMAIN tracker : tracker[n].state = "closed"

(* C14: a run of get_prioritized_issues.py during which an issue it listed
   is closed or deleted still ends without an unhandled exception. *)
C14_MutationNeverFaults ==
    \A p \in Callers :
        procs[p].script = "get_prioritized_issues" => procs[p].fault # "lookup"

(* C19: of two overlapping runs of get_next_issue.py neither fails on the
   hand-off file, and when both have ended the file is the complete result of
   one of them: its selected issue, or no file when it selected none. *)
HandOff(proc) == IF proc.next.number # 0 THEN dump(proc.next) ELSE Absent

C19_OverlapLeavesOneResult ==
    /\ \A p \in Callers : procs[p].fault # "remove"
    /\ (\A p \in Callers : procs[p].script = "get_next_issue" /\ procs[p].pc = "done")
           => \E p \in Callers : out_file = HandOff(procs[p])

(* C21: after a run of get_next_issue.py the hand-off file exists exactly
   when that run selected an issue, and then holds its number and priority. *)
C21_FileIffSelected ==
    last.script = "get_next_issue" =>
        /\ out_file.exists <=> (last.number # 0)
        /\ out_file.exists =>
               (out_file.issue_number = last.number /\ out_file.priority = last.priority)

(* C22: check_dependencies.py exits 0 exactly when the issue resolves and
   all its references are closed, with 1 otherwise (unresolved reference,
   usage error, uncaught exception); the wrapper of get_next_issue returns
   True exactly when the process was launched and exited 0. *)
RanWrapper == last.script = "gni check_dependencies"

C22_ExitStatusIsVerdict ==
    /\ last.script = "check_dependencies" =>
           /\ (last.exit = 0) <=> (~last.raised /\ (cd_refs = {} \/ AllClosed(cd_refs)))
           /\ last.exit \in {0, 1}
    /\ last.script = "check_dependencies usage" => last.exit = 1
    /\ RanWrapper =>
           /\ last.ok <=> (~last.raised /\ last.exit = 0)
           /\ last.ok <=> /\ ~last.raised
                           /\ Resolves(tracker, last.arg)
                           /\ (cd_refs = {} \/ AllClosed(cd_refs))

C22_Witness ==
    /\ RanWrapper /\ ~last.raised /\ ~last.ok /\ last.exit = 1
    /\ ~Resolves(tracker, last.arg)

(* C25: on every body the two resolvers extract the same set of ids and
   return the same boolean. *)
C25_ResolversAgree ==
    (RanCd /\ Subject.state = "open") =>
        /\ cd_refs = cni_refs
        /\ last.ok = deps_resolved(tracker, Subject.body)

(* C27: a scheduler run calls the resolver at most once per candidate, and a
   resolver call looks up only references of the candidate's own body, at
   most once per occurrence, also when the references form a cycle. *)
Count(seq, c) == Cardinality({i \in DOMAIN seq : seq[i][1] = c})
NoDuplicates(seq) == \A i, j \in DOMAIN seq : seq[i] = seq[j] => i = j

BoundedLookups(candidates, pattern) ==
    /\ NoDuplicates(last.checked)
    /\ Range(last.checked) \subseteq candidates
    /\ \A i \in DOMAIN last.lookups :
           /\ last.lookups[i][1] \in Range(last.checked)
           /\ last.lookups[i][2] \in Range(findall(pattern, tracker[last.lookups[i][1]].body))
    /\ \A c \in candidates :
           Count(last.lookups, c) <= Len(findall(pattern, tracker[c].body))

C27_BoundedWork ==
    /\ RanGni => BoundedLookups(gni_candidates, cd_pattern)
    /\ RanCni => BoundedLookups(cni_candidates, cni_pattern)

C27_Witness ==
    /\ RanGni /\ last.number = 0
    /\ gni_candidates = {1, 2}
    /\ gni_deps(1) = {2} /\ gni_deps(2) = {1}
    /\ Len(last.checked) = 2 /\ Len(last.lookups) = 2

(* C23: without FORCE_ISSUE get_prioritized_issues announces the first entry,
   in (priority, number) order, whose status is ready; an issue that carries a
   marker of one of the four categories or references an issue of the pool is
   never ready, and nothing is announced when no entry is ready. *)
DocRank(p) == CASE p = "P0" -> 0 [] p = "P1" -> 1 [] OTHER -> 2
EntryKey(d) == <<DocRank(d.priority), d.number>>
ReadyEntries == {i \in DOMAIN last.list : last.list[i].status = "ready"}
OpenPool == {n \in DOMAIN tracker : tracker[n].state = "open"}

C23_FirstReadyAnnounced ==
    RanGpi =>
        /\ (last.number = 0) <=> (ReadyEntries = {})
        /\ last.number # 0 =>
               \E i \in ReadyEntries :
                   /\ last.list[i].number = last.number
                   /\ \A j \in ReadyEntries \ {i} :
                          KeyLess(EntryKey(last.list[i]), EntryKey(last.list[j]))
        /\ \A i \in ReadyEntries :
               /\ Hits(tracker[last.list[i].number].labels) = {}
               /\ gpi_deps(last.list[i].number) \cap OpenPool = {}

C23_Witness ==
    /\ RanGpi /\ last.number = 2
    /\ Len(last.list) = 2 /\ ReadyEntries = {1, 2}
    /\ last.list[1].priority = "P0" /\ last.list[2].priority = "P2"

(* C24: with FORCE_ISSUE naming an issue of the pool, that issue is first in
   the list with status ready and is announced, and the rest of the list is the
   list of the run without FORCE_ISSUE less that issue; with FORCE_ISSUE naming
   an issue outside the pool, the list is the one of the run without it. *)
RanGpiForced == last.script = "get_prioritized_issues" /\ last.arg # 0

C24_ForcedFirstOthersKept ==
    RanGpiForced =>
        \A collected \in get_open_issues(tracker) :
            \A view \in LabelViews(tracker, Range(collected)) :
                LET base == gpi_main(tracker, 0, collected, view).list
                IN  IF last.arg \in OpenPool
                    THEN /\ last.list # <<>>
                         /\ last.list[1].number = last.arg
                         /\ last.list[1].status = "ready"
                         /\ last.number = last.arg
                         /\ Tail(last.list) =
                                SelectSeq(base, LAMBDA d : d.number # last.arg)
                    ELSE last.list = base

C24_Witness ==
    /\ RanGpiForced /\ last.arg = 2 /\ last.number = 2
    /\ OpenPool = {1, 2}
    /\ Hits(tracker[2].labels) # {}
    /\ last.list[1].number = 2 /\ last.list[1].status = "ready"
    /\ last.list[2].number = 1 /\ last.list[2].status = "ready"

(* C26: a dependency that create_issues wrote in its second pass is extracted
   by both resolvers from the body of the created issue, which is therefore
   not unblocked while the dependency is open. *)
CreatedDeps(n) ==
    IF workdir.created_exists /\ n \in Range(workdir.created)
    THEN LET i == CHOOSE i \in DOMAIN workdir.created : workdir.created[i] = n
         IN  Range(dep_nums_of(workdir.plan, workdir.created, workdir.plan[i].depends_on))
    ELSE {}

C26_CreatedDependencyRecognised ==
    ((RanCd \/ RanDeps) /\ Subject.state = "open") =>
        /\ CreatedDeps(last.arg) \subseteq cd_refs
        /\ CreatedDeps(last.arg) \subseteq cni_refs
        /\ (\E d \in CreatedDeps(last.arg) : tracker[d].state = "open") => ~last.ok

(* C28: a run of create_issues with --dry-run makes no mutating call to the
   tracker (no label, no issue, no patch) and writes no file. *)
C28_DryRunChangesNothing ==
    [][(last'.script = "create_issues" /\ last'.dry_run) =>
          /\ last'.calls = NoCalls
          /\ tracker' = tracker /\ repo_labels' = repo_labels /\ workdir' = workdir]_vars

(* C29: whenever run_all_tests writes a test report, the report's all_passed
   is true exactly when the process exits 0. *)
C29_ReportAgreesWithExit ==
    (last.script = "run_all_tests" /\ last.status = "report") =>
        (workdir.report.all_passed <=> (last.exit = 0))

(* C30: security_check exits 0 exactly when it wrote a report whose passed
   field is true; the passed field written is true exactly when no collected
   issue is critical; every detected secret is critical and fails the run; and
   the exit status of a run that ends normally depends on the critical
   findings only, not on those of severity high or warning. *)
RanSecurity == last.script = "security_check"
Reported == RanSecurity /\ last.status = "report"
CriticalFound ==
    \/ workdir.secrets > 0
    \/ \E i \in DOMAIN workdir.npm.found : workdir.npm.found[i] = "critical"
    \/ \E i \in DOMAIN workdir.code : workdir.code[i] = "critical"

C30_ExitIsPassedIsNoCritical ==
    RanSecurity =>
        /\ (last.exit = 0) <=> (Reported /\ workdir.report.passed)
        /\ last.exit \in {0, 1}
        /\ workdir.secrets > 0 => last.exit = 1
        /\ Reported =>
               /\ workdir.report.issues = last.list
               /\ workdir.report.passed <=>
                      (\A i \in DOMAIN last.list : last.list[i].severity # "critical")
               /\ workdir.report.passed <=> ~CriticalFound
               /\ \A i \in DOMAIN last.list :
                      last.list[i].type = "Hardcoded" => last.list[i].severity = "critical"
               /\ Len(SelectSeq(last.list, LAMBDA i : i.type = "Hardcoded")) = workdir.secrets

C30_Witness ==
    /\ Reported /\ last.exit = 0 /\ workdir.report.passed
    /\ workdir.report.high > 0 /\ workdir.report.warning > 0
    /\ workdir.report.critical = 0

====
